---------------------------- MODULE Spec2Model ----------------------------
(***************************************************************************)
(* A model of the car-inspection NFT service: the mint pipeline of         *)
(* src/server.ts (both variants of the file) and of the stand-alone script *)
(* src/minting.ts, the two query endpoints, and the derivation of the      *)
(* token name.                                                             *)
(*                                                                         *)
(* A JavaScript string is a sequence of one-character strings.  A request  *)
(* body is a function from the field names it carries to strings, so a     *)
(* missing field is a name outside its domain.                             *)
(***************************************************************************)
EXTENDS Integers, Sequences, FiniteSets

VARIABLES
  program,      \* which program the process runs: "v1", "v2" (server.ts) or "script"
  secretKey,    \* the wallet's signing key, read once at start-up
  chainUtxos,   \* the unspent outputs at the wallet's address, as the provider sees them
  nextUtxo,     \* the id of the next output the ledger creates
  ledger,       \* the transactions the ledger has accepted
  pc,           \* each mint request's position in its handler
  body,         \* each mint request's body (req.body)
  utxos,        \* handler local: the result of wallet.getUtxos()
  walletAddress,\* handler local: (await wallet.getUsedAddresses())[0]
  tx,           \* handler local: unsignedTx, then signedTx
  calls,        \* per request, the calls it has made, in order
  resp,         \* per request, the responses it has sent, in order
  ident,        \* per request, the identity it derived (kept after the handler ends)
  failedAt,     \* per request, the call that rejected ("" when none did)
  before,       \* per request, the requests that had submitted or ended when its UTxOs were fetched
  qpc,          \* each query request's position
  qroute,       \* each query's endpoint: "tx" or "nft"
  qfetched,     \* per query, the upstream statuses its fetches received, in order
  qresp,        \* per query, the responses it has sent
  dpc,          \* the derivation check's position
  dRecs,        \* the two records whose token names are compared
  dNames        \* their token names

mintVars == <<program, secretKey, chainUtxos, nextUtxo, ledger, pc, body, utxos,
              walletAddress, tx, calls, resp, ident, failedAt, before>>
queryVars == <<qpc, qroute, qfetched, qresp>>
deriveVars == <<dpc, dRecs, dNames>>
vars == <<mintVars, queryVars, deriveVars>>

----------------------------------------------------------------------------
(* Bounds of the model *)

MaxReqs == 2        \* mint requests a run serves
MaxQueries == 2     \* query requests a run serves
MaxFieldLen == 2    \* longest field of the records the derivation check compares
InitUtxos == 2      \* unspent outputs the wallet starts with

Reqs == 1..MaxReqs
Queries == 1..MaxQueries

----------------------------------------------------------------------------
(* Strings *)

\* The non-empty strings over a set of characters, up to a length
StrUpTo(chars, n) == UNION {[1..k -> chars] : k \in 1..n}

\* The characters field values are drawn from; "-" is the one the key is joined by
Alphabet == <<"-", "A", "B">>

CharCode(c) == CHOOSE i \in 1..Len(Alphabet) : Alphabet[i] = c

HexDigits == <<"0", "1", "2", "3", "4", "5", "6", "7", "8", "9",
               "a", "b", "c", "d", "e", "f">>

\* createHash('sha256'): the digest has 64 hex characters
DigestLen == 64
\* .substring(0, 32)
TokenNameLen == 32

RECURSIVE StrNum(_)
\* An injective numbering of the strings over Alphabet (bijective base-3)
StrNum(s) == IF s = <<>> THEN 0
             ELSE CharCode(Head(s)) + Len(Alphabet) * StrNum(Tail(s))

\* hash.update(s); hash.digest('hex'): SHA-256 stands here as a function that is
\* injective on its input and spreads it over the leading digits, so that the
\* 32 digits kept by substring(0, 32) still tell inputs apart
Sha256Hex(s) ==
  LET n == StrNum(s) + 1
  IN  [i \in 1..DigestLen |->
         IF i <= 6 THEN HexDigits[((n \div (16 ^ (i - 1))) % 16) + 1] ELSE "0"]

\* stringToHex: the two hex digits of each character's code
HexOfChar(c) ==
  CASE c = "0" -> <<"3", "0">> [] c = "1" -> <<"3", "1">> [] c = "2" -> <<"3", "2">>
    [] c = "3" -> <<"3", "3">> [] c = "4" -> <<"3", "4">> [] c = "5" -> <<"3", "5">>
    [] c = "6" -> <<"3", "6">> [] c = "7" -> <<"3", "7">> [] c = "8" -> <<"3", "8">>
    [] c = "9" -> <<"3", "9">> [] c = "a" -> <<"6", "1">> [] c = "b" -> <<"6", "2">>
    [] c = "c" -> <<"6", "3">> [] c = "d" -> <<"6", "4">> [] c = "e" -> <<"6", "5">>
    [] c = "f" -> <<"6", "6">> [] c = "g" -> <<"6", "7">> [] c = "i" -> <<"6", "9">>
    [] c = "j" -> <<"6", "a">> [] c = "k" -> <<"6", "b">> [] c = "l" -> <<"6", "c">>
    [] c = "n" -> <<"6", "e">> [] c = "o" -> <<"6", "f">> [] c = "p" -> <<"7", "0">>
    [] c = "s" -> <<"7", "3">> [] c = "I" -> <<"4", "9">> [] c = "J" -> <<"4", "a">>
    [] c = "M" -> <<"4", "d">> [] c = "P" -> <<"5", "0">> [] c = "T" -> <<"5", "4">>
    [] c = "." -> <<"2", "e">> [] c = " " -> <<"2", "0">>

RECURSIVE stringToHex(_)
stringToHex(s) == IF s = <<>> THEN <<>>
                  ELSE HexOfChar(Head(s)) \o stringToHex(Tail(s))

----------------------------------------------------------------------------
(* Identity derivation and policy resolution *)

\* A key that takes in the mileage as well
dataToHashWithMileage(metadata) ==
  metadata.vehicleNumber \o <<"-">> \o metadata.inspectionDate
                         \o <<"-">> \o metadata.inspectorId
                         \o <<"-">> \o metadata.mileage

\* `${metadata.vehicleNumber}-${metadata.inspectionDate}-${metadata.inspectorId}`
dataToHash(metadata) ==
  metadata.vehicleNumber \o <<"-">> \o metadata.inspectionDate
                         \o <<"-">> \o metadata.inspectorId

\* hash.digest('hex').substring(0, 32)
HashedTokenName(metadata) == SubSeq(Sha256Hex(dataToHash(metadata)), 1, TokenNameLen)

\* const tokenName = "PT. Inspeksi Mobil Jogja" (first variant and script)
FixedTokenName == <<"P", "T", ".", " ", "I", "n", "s", "p", "e", "k", "s", "i", " ",
                    "M", "o", "b", "i", "l", " ", "J", "o", "g", "j", "a">>

\* A display name made from the token name instead
displayNameOfToken(metadata) ==
  <<"C", "a", "r", "I", "n", "s", "p", "e", "c", "t", "i", "o", "n", "-">>
    \o HashedTokenName(metadata)

\* `CarInspection-${metadata.vehicleNumber}`
displayName(metadata) ==
  <<"C", "a", "r", "I", "n", "s", "p", "e", "c", "t", "i", "o", "n", "-">>
    \o metadata.vehicleNumber

\* The keys the process may have been started with, and the address the wallet
\* derives from each; a key's wallet also knows further addresses of its own
Keys == {"sk1", "sk2"}
BaseAddress(key) == IF key = "sk1" THEN "addr1" ELSE "addr2"
OtherAddresses(key) == IF key = "sk1" THEN {"addr1x"} ELSE {"addr2x"}

\* deserializeAddress(address).pubKeyHash, as one hex digit
PubKeyHash(address) ==
  CASE address = "addr1" -> "1" [] address = "addr1x" -> "2"
    [] address = "addr2" -> "3" [] address = "addr2x" -> "4"

\* ForgeScript.withOneSignature(address)
withOneSignature(address) == [type |-> "sig", keyHash |-> PubKeyHash(address)]

\* resolveScriptHash(script): 56 hex digits, injective in the script
resolveScriptHash(script) == [i \in 1..56 |-> script.keyHash]

\* wallet.getUsedAddresses(): the wallet's own base address first
UsedAddressLists(key) ==
  {<<BaseAddress(key)>>} \cup {<<BaseAddress(key), a>> : a \in OtherAddresses(key)}

----------------------------------------------------------------------------
(* Request bodies *)

Fields == {"vehicleNumber", "inspectionDate", "inspectorId", "mileage", "status", "pdfurl"}

\* !metadata.f : the field is missing, or is the empty string
Falsy(metadata, f) == f \notin DOMAIN metadata \/ metadata[f] = <<>>

\* A test that forgets the mileage
MissingRequiredButMileage(metadata) ==
  \/ Falsy(metadata, "vehicleNumber") \/ Falsy(metadata, "inspectionDate")
  \/ Falsy(metadata, "inspectorId")   \/ Falsy(metadata, "status")
  \/ Falsy(metadata, "pdfurl")

\* The test of the handler's first if
MissingRequired(metadata) ==
  \/ Falsy(metadata, "vehicleNumber") \/ Falsy(metadata, "inspectionDate")
  \/ Falsy(metadata, "inspectorId")   \/ Falsy(metadata, "mileage")
  \/ Falsy(metadata, "status")        \/ Falsy(metadata, "pdfurl")

Without(metadata, f) == [g \in DOMAIN metadata \ {f} |-> metadata[g]]

CompleteBodies ==
  {[vehicleNumber |-> v, inspectionDate |-> <<"A", "-", "B">>, inspectorId |-> <<"B">>,
    mileage |-> m, status |-> <<"A">>, pdfurl |-> <<"B">>] :
      v \in {<<"A">>, <<"B">>}, m \in {<<"A">>, <<"B">>}}

SampleBody == CHOOSE b \in CompleteBodies : b.vehicleNumber = <<"A">> /\ b.mileage = <<"A">>

\* Bodies with one field left out, and one with a field sent as ""
IncompleteBodies ==
  {Without(SampleBody, f) : f \in Fields} \cup {[SampleBody EXCEPT !.mileage = <<>>]}

Bodies == CompleteBodies \cup IncompleteBodies

\* demoAssetMetadata of the script
demoAssetMetadata ==
  [vehicleNumber |-> <<"A", "B">>, inspectionDate |-> <<"B", "-", "A">>,
   inspectorId |-> <<"A">>, mileage |-> <<"A">>, status |-> <<"B">>, pdfurl |-> <<"B">>]

Triple(metadata) ==
  <<metadata.vehicleNumber, metadata.inspectionDate, metadata.inspectorId>>

----------------------------------------------------------------------------
(* What a mint request computes between getUsedAddresses and complete *)

\* const tokenName = ... : hashed in the second variant, fixed in the others
tokenNameOf(prog, metadata) ==
  IF prog = "v2" THEN HashedTokenName(metadata) ELSE FixedTokenName

\* const policyId = resolveScriptHash(ForgeScript.withOneSignature(walletAddress))
policyIdOf(address) == resolveScriptHash(withOneSignature(address))

\* const assetId = policyId + tokenNameHex (second variant only)
assetIdOf(prog, address, metadata) ==
  IF prog = "v2"
  THEN policyIdOf(address) \o stringToHex(tokenNameOf(prog, metadata))
  ELSE <<>>

\* { ...metadata, name: displayName } in the second variant, { ...metadata } in the others
tokenFields(prog, metadata) ==
  IF prog = "v2"
  THEN [f \in DOMAIN metadata \cup {"name"} |->
          IF f = "name" THEN displayName(metadata) ELSE metadata[f]]
  ELSE metadata

\* { [policyId]: { [tokenName]: fields } }
nftMetadata(prog, address, metadata) ==
  [p \in {policyIdOf(address)} |->
     [t \in {tokenNameOf(prog, metadata)} |-> tokenFields(prog, metadata)]]

\* The builder after .mint("1", policyId, tokenNameHex).mintingScript(forgingScript)
\* .metadataValue(721, nftMetadata).changeAddress(walletAddress).selectUtxosFrom(utxos)
BuilderTx(prog, address, metadata, candidates) ==
  [mint |-> [quantity |-> 1, policy |-> policyIdOf(address),
             name |-> stringToHex(tokenNameOf(prog, metadata))],
   mintingScript |-> withOneSignature(address),
   metadata |-> [l \in {721} |-> nftMetadata(prog, address, metadata)],
   changeAddress |-> address,
   candidates |-> candidates,
   inputs |-> {},
   signedBy |-> ""]

\* A chain that hands over the UTxOs before it attaches the metadata
ChainCallsUtxosFirst ==
  <<"getTxBuilder", "mint", "mintingScript", "selectUtxosFrom", "metadataValue",
    "changeAddress", "complete">>

\* The builder chain, in the order the code makes its calls
ChainCalls ==
  <<"getTxBuilder", "mint", "mintingScript", "metadataValue", "changeAddress",
    "selectUtxosFrom", "complete">>

\* The calls of the synchronous stretch that ends at complete()
BuildCalls(prog) ==
  CASE prog = "v2" ->
         <<"withOneSignature", "resolveScriptHash", "createHash", "stringToHex",
           "nftMetadata">> \o ChainCalls
    [] prog = "v1" ->
         <<"withOneSignature", "resolveScriptHash", "stringToHex", "nftMetadata",
           "deserializeAddress">> \o ChainCalls
    [] prog = "script" ->
         <<"withOneSignature", "resolveScriptHash", "stringToHex", "nftMetadata",
           "deserializeAddress">> \o ChainCalls

NoTx == [mint |-> [quantity |-> 0, policy |-> <<>>, name |-> <<>>],
         mintingScript |-> [type |-> "", keyHash |-> ""],
         metadata |-> <<>>, changeAddress |-> "", candidates |-> {}, inputs |-> {},
         signedBy |-> ""]

NoIdent == [policyId |-> <<>>, tokenName |-> <<>>, assetId |-> <<>>]

\* The transaction id: a hash of the body, the witnesses left out
TxHash(t) == [t EXCEPT !.signedBy = "", !.candidates = {}]

----------------------------------------------------------------------------
(* Responses *)

\* res.status(400).json({ error: 'Missing required fields' })
Resp400 == [status |-> 400, body |-> [error |-> "Missing required fields"]]

\* error.message of the rejection of a call
ErrorMessage(call) == <<call, "rejected">>

\* The catch block's response
Resp500(prog, call) ==
  IF prog = "v2"
  THEN [status |-> 500,
        body |-> [error |-> "Failed to mint NFT", details |-> ErrorMessage(call)]]
  ELSE [status |-> 500, body |-> [error |-> "Failed to mint NFT"]]

\* res.json({ txHash, assetId }) in the second variant, res.json({ txHash }) in the first
Resp200(prog, hash, asset) ==
  IF prog = "v2"
  THEN [status |-> 200, body |-> [txHash |-> hash, assetId |-> asset]]
  ELSE [status |-> 200, body |-> [txHash |-> hash]]

----------------------------------------------------------------------------
(* The ledger, as the provider answers for it *)

\* The unit a transaction mints: policy id followed by the asset name
Unit(t) == t.mint.policy \o t.mint.name

RECURSIVE SumQuantity(_)
SumQuantity(ts) ==
  IF ts = {} THEN 0
  ELSE LET t == CHOOSE x \in ts : TRUE
       IN  t.mint.quantity + SumQuantity(ts \ {t})

\* The quantity in circulation of an asset
Minted(unit) == SumQuantity({t \in ledger : Unit(t) = unit})

\* A ledger that takes the mint of an asset only once
CanSubmitUnminted(t) ==
  /\ t.inputs # {}
  /\ t.inputs \subseteq chainUtxos
  /\ t.signedBy \in Keys
  /\ PubKeyHash(BaseAddress(t.signedBy)) = t.mintingScript.keyHash
  /\ Minted(Unit(t)) = 0

\* The ledger takes a transaction whose inputs are all unspent and whose mint is
\* witnessed by the key its one-signature script names, however often the asset
\* was minted before
CanSubmit(t) ==
  /\ t.inputs # {}
  /\ t.inputs \subseteq chainUtxos
  /\ t.signedBy \in Keys
  /\ PubKeyHash(BaseAddress(t.signedBy)) = t.mintingScript.keyHash

----------------------------------------------------------------------------
(* The mint handler: app.post('/api/metadata') and the script's main() *)

\* A handler that keeps the transaction it built
LocalsKept(t) == t

\* What the handler's locals hold once the handler has returned
LocalsAtEnd(t) == NoTx

Ended == {r \in Reqs : pc[r] = "done"}

\* The request arrives: validation, then the call of wallet.getUtxos()
Receive(r, b) ==
  /\ program \in {"v1", "v2"}
  /\ pc[r] = "idle"
  /\ \A q \in Reqs : q < r => pc[q] # "idle"
  /\ body' = [body EXCEPT ![r] = b]
  /\ IF MissingRequired(b)
     THEN /\ resp' = [resp EXCEPT ![r] = Append(@, Resp400)]
          /\ pc' = [pc EXCEPT ![r] = "done"]
          /\ UNCHANGED calls
     ELSE /\ calls' = [calls EXCEPT ![r] = Append(@, "getUtxos")]
          /\ pc' = [pc EXCEPT ![r] = "getUtxos"]
          /\ UNCHANGED resp
  /\ UNCHANGED <<queryVars, deriveVars, program, secretKey, chainUtxos, nextUtxo, ledger, utxos, walletAddress,
                 tx, ident, failedAt, before>>

\* main() of the script: no request, no validation, the demo record
RunMain(r) ==
  /\ program = "script"
  /\ r = 1
  /\ pc[r] = "idle"
  /\ body' = [body EXCEPT ![r] = demoAssetMetadata]
  /\ calls' = [calls EXCEPT ![r] = Append(@, "getUtxos")]
  /\ pc' = [pc EXCEPT ![r] = "getUtxos"]
  /\ UNCHANGED <<queryVars, deriveVars, program, secretKey, chainUtxos, nextUtxo, ledger, utxos, walletAddress,
                 tx, resp, ident, failedAt, before>>

\* An awaited call rejects: the catch block answers 500; the script has no catch
\* and its promise is left rejected
Reject(r, call) ==
  /\ pc[r] = call
  /\ failedAt' = [failedAt EXCEPT ![r] = call]
  /\ resp' = [resp EXCEPT ![r] = IF program = "script" THEN @
                                  ELSE Append(@, Resp500(program, call))]
  /\ tx' = [tx EXCEPT ![r] = LocalsAtEnd(@)]
  /\ utxos' = [utxos EXCEPT ![r] = {}]
  /\ walletAddress' = [walletAddress EXCEPT ![r] = ""]
  /\ pc' = [pc EXCEPT ![r] = "done"]
  /\ UNCHANGED <<queryVars, deriveVars, program, secretKey, chainUtxos, nextUtxo, ledger, body, calls, ident,
                 before>>

\* wallet.getUtxos() resolves; wallet.getUsedAddresses() is called
GetUtxosOk(r) ==
  /\ pc[r] = "getUtxos"
  /\ utxos' = [utxos EXCEPT ![r] = chainUtxos]
  /\ before' = [before EXCEPT ![r] = Ended]
  /\ calls' = [calls EXCEPT ![r] = Append(@, "getUsedAddresses")]
  /\ pc' = [pc EXCEPT ![r] = "getUsedAddresses"]
  /\ UNCHANGED <<queryVars, deriveVars, program, secretKey, chainUtxos, nextUtxo, ledger, body, walletAddress,
                 tx, resp, ident, failedAt>>

GetUtxosFail(r) == Reject(r, "getUtxos")

\* wallet.getUsedAddresses() resolves; script, policy id, token name, metadata and
\* the builder chain run without a pause, up to the call of complete()
GetUsedAddressesOk(r, addresses) ==
  /\ pc[r] = "getUsedAddresses"
  /\ walletAddress' = [walletAddress EXCEPT ![r] = addresses[1]]
  /\ ident' = [ident EXCEPT ![r] =
                 [policyId |-> policyIdOf(addresses[1]),
                  tokenName |-> tokenNameOf(program, body[r]),
                  assetId |-> assetIdOf(program, addresses[1], body[r])]]
  /\ tx' = [tx EXCEPT ![r] = BuilderTx(program, addresses[1], body[r], utxos[r])]
  /\ calls' = [calls EXCEPT ![r] = @ \o BuildCalls(program)]
  /\ pc' = [pc EXCEPT ![r] = "complete"]
  /\ UNCHANGED <<queryVars, deriveVars, program, secretKey, chainUtxos, nextUtxo, ledger, body, utxos, resp,
                 failedAt, before>>

GetUsedAddressesFail(r) == Reject(r, "getUsedAddresses")

\* complete() resolves with a balanced transaction: its inputs are some of the
\* outputs handed to selectUtxosFrom; wallet.signTx is called
CompleteOk(r, inputs) ==
  /\ pc[r] = "complete"
  /\ inputs # {}
  /\ inputs \subseteq tx[r].candidates
  /\ tx' = [tx EXCEPT ![r].inputs = inputs]
  /\ calls' = [calls EXCEPT ![r] = Append(@, "signTx")]
  /\ pc' = [pc EXCEPT ![r] = "signTx"]
  /\ UNCHANGED <<queryVars, deriveVars, program, secretKey, chainUtxos, nextUtxo, ledger, body, utxos,
                 walletAddress, resp, ident, failedAt, before>>

\* complete() rejects: too little value in the outputs, or any builder error
CompleteFail(r) == Reject(r, "complete")

\* wallet.signTx resolves; wallet.submitTx is called
SignTxOk(r) ==
  /\ pc[r] = "signTx"
  /\ tx' = [tx EXCEPT ![r].signedBy = secretKey]
  /\ calls' = [calls EXCEPT ![r] = Append(@, "submitTx")]
  /\ pc' = [pc EXCEPT ![r] = "submitTx"]
  /\ UNCHANGED <<queryVars, deriveVars, program, secretKey, chainUtxos, nextUtxo, ledger, body, utxos,
                 walletAddress, resp, ident, failedAt, before>>

SignTxFail(r) == Reject(r, "signTx")

\* wallet.submitTx resolves with the transaction id: the ledger has taken the
\* transaction; the handler answers 200 (the script logs the id)
SubmitTxOk(r) ==
  /\ pc[r] = "submitTx"
  /\ CanSubmit(tx[r])
  /\ ledger' = ledger \cup {tx[r]}
  /\ chainUtxos' = (chainUtxos \ tx[r].inputs) \cup {nextUtxo}
  /\ nextUtxo' = nextUtxo + 1
  /\ resp' = [resp EXCEPT ![r] =
                IF program = "script" THEN @
                ELSE Append(@, Resp200(program, TxHash(tx[r]),
                                       assetIdOf(program, walletAddress[r], body[r])))]
  /\ tx' = [tx EXCEPT ![r] = LocalsAtEnd(@)]
  /\ utxos' = [utxos EXCEPT ![r] = {}]
  /\ walletAddress' = [walletAddress EXCEPT ![r] = ""]
  /\ pc' = [pc EXCEPT ![r] = "done"]
  /\ UNCHANGED <<queryVars, deriveVars, program, secretKey, body, calls, ident, failedAt, before>>

\* wallet.submitTx rejects: the network, or the ledger (a spent input among them)
SubmitTxFail(r) == Reject(r, "submitTx")

\* The mint side before any request: the state after the module's top level has run
MintStart ==
  /\ secretKey \in Keys
  /\ chainUtxos \in {1..n : n \in 0..InitUtxos}
  /\ nextUtxo = InitUtxos + 1
  /\ ledger = {}
  /\ pc = [r \in Reqs |-> "idle"]
  /\ body = [r \in Reqs |-> SampleBody]
  /\ utxos = [r \in Reqs |-> {}]
  /\ walletAddress = [r \in Reqs |-> ""]
  /\ tx = [r \in Reqs |-> NoTx]
  /\ calls = [r \in Reqs |-> <<>>]
  /\ resp = [r \in Reqs |-> <<>>]
  /\ ident = [r \in Reqs |-> NoIdent]
  /\ failedAt = [r \in Reqs |-> ""]
  /\ before = [r \in Reqs |-> {}]

QueryIdle ==
  /\ qpc = [q \in Queries |-> "idle"]
  /\ qroute = [q \in Queries |-> ""]
  /\ qfetched = [q \in Queries |-> <<>>]
  /\ qresp = [q \in Queries |-> <<>>]

DeriveIdle ==
  /\ dpc = "off" /\ dRecs = <<>> /\ dNames = <<>>

Init ==
  /\ program \in {"v1", "v2", "script"}
  /\ MintStart /\ QueryIdle /\ DeriveIdle

Next ==
  \/ \E r \in Reqs, b \in Bodies : Receive(r, b)
  \/ \E r \in Reqs : RunMain(r)
  \/ \E r \in Reqs : GetUtxosOk(r)
  \/ \E r \in Reqs : GetUtxosFail(r)
  \/ \E r \in Reqs, addresses \in UsedAddressLists(secretKey) :
       GetUsedAddressesOk(r, addresses)
  \/ \E r \in Reqs : GetUsedAddressesFail(r)
  \/ \E r \in Reqs : \E inputs \in SUBSET tx[r].candidates : CompleteOk(r, inputs)
  \/ \E r \in Reqs : CompleteFail(r)
  \/ \E r \in Reqs : SignTxOk(r)
  \/ \E r \in Reqs : SignTxFail(r)
  \/ \E r \in Reqs : SubmitTxOk(r)
  \/ \E r \in Reqs : SubmitTxFail(r)

Spec == Init /\ [][Next]_vars

----------------------------------------------------------------------------
(* The query endpoints: app.get('/api/metadata/:txHash'), app.get('/api/nft/:assetId') *)

\* The statuses the indexer answers a fetch with
Statuses == {200, 404, 500}

\* response.ok
Ok(status) == status >= 200 /\ status <= 299

\* `Blockfrost API returned status ${response.status}`
StatusMessage(status) == <<"Blockfrost API returned status ", status>>

\* The message of the error response.json() rejects with
ParseMessage == <<"invalid json response body", 0>>

QueryError(route) ==
  IF route = "tx" THEN "Failed to retrieve transaction metadata"
  ELSE "Failed to retrieve NFT data"

\* A catch block that hands the upstream status on
UpstreamStatus(status) == status

\* The status the catch block answers with
CaughtStatus(status) == 500

\* The catch block's response
QueryResp500(prog, route, status, message) ==
  IF prog = "v2"
  THEN [status |-> CaughtStatus(status),
        body |-> [error |-> QueryError(route), details |-> message]]
  ELSE [status |-> CaughtStatus(status), body |-> [error |-> QueryError(route)]]

\* res.json(metadata), res.json(combinedData)
QueryResp200(route) == [status |-> 200, body |-> [data |-> route]]

\* The fetches an endpoint makes when every one is answered 2xx
FetchesOf(route) == IF route = "tx" THEN 1 ELSE 2

\* The request arrives with its path parameter (the route matches only a
\* non-empty one); the first fetch is sent
QueryReceive(q, route) ==
  /\ qpc[q] = "idle"
  /\ \A o \in Queries : o < q => qpc[o] # "idle"
  /\ program = "v1" => route = "tx"
  /\ qroute' = [qroute EXCEPT ![q] = route]
  /\ qpc' = [qpc EXCEPT ![q] = "fetch"]
  /\ UNCHANGED <<mintVars, deriveVars, qfetched, qresp>>

\* A fetch is answered 2xx and its body parses: the next fetch, or the 200
FetchOk(q, status) ==
  /\ qpc[q] = "fetch"
  /\ Ok(status)
  /\ qfetched' = [qfetched EXCEPT ![q] = Append(@, status)]
  /\ IF Len(qfetched[q]) + 1 < FetchesOf(qroute[q])
     THEN UNCHANGED <<qpc, qresp>>
     ELSE /\ qresp' = [qresp EXCEPT ![q] = Append(@, QueryResp200(qroute[q]))]
          /\ qpc' = [qpc EXCEPT ![q] = "done"]
  /\ UNCHANGED <<mintVars, deriveVars, qroute>>

\* A fetch is answered with a status that is not 2xx: throw, catch, 500
FetchNotOk(q, status) ==
  /\ qpc[q] = "fetch"
  /\ ~Ok(status)
  /\ qfetched' = [qfetched EXCEPT ![q] = Append(@, status)]
  /\ qresp' = [qresp EXCEPT ![q] =
                 Append(@, QueryResp500(program, qroute[q], status, StatusMessage(status)))]
  /\ qpc' = [qpc EXCEPT ![q] = "done"]
  /\ UNCHANGED <<mintVars, deriveVars, qroute>>

\* A fetch is answered 2xx and response.json() rejects
FetchUnparsed(q, status) ==
  /\ qpc[q] = "fetch"
  /\ Ok(status)
  /\ qfetched' = [qfetched EXCEPT ![q] = Append(@, status)]
  /\ qresp' = [qresp EXCEPT ![q] =
                 Append(@, QueryResp500(program, qroute[q], status, ParseMessage))]
  /\ qpc' = [qpc EXCEPT ![q] = "done"]
  /\ UNCHANGED <<mintVars, deriveVars, qroute>>

QueryInit ==
  /\ program \in {"v1", "v2"}
  /\ MintStart /\ QueryIdle /\ DeriveIdle

QueryNext ==
  \/ \E q \in Queries, route \in {"tx", "nft"} : QueryReceive(q, route)
  \/ \E q \in Queries, status \in Statuses : FetchOk(q, status)
  \/ \E q \in Queries, status \in Statuses : FetchNotOk(q, status)
  \/ \E q \in Queries, status \in Statuses : FetchUnparsed(q, status)

SpecQuery == QueryInit /\ [][QueryNext]_vars

----------------------------------------------------------------------------
(* The token name as a function of the record: two records side by side *)

DeriveChars == {"-", "A"}

\* The identity fields of a record that passes validation: non-empty strings
DeriveRecords ==
  {[vehicleNumber |-> v, inspectionDate |-> d, inspectorId |-> i] :
     v \in StrUpTo(DeriveChars, MaxFieldLen), d \in StrUpTo(DeriveChars, MaxFieldLen),
     i \in StrUpTo(DeriveChars, 1)}

\* The handler derives the token name of one of the two records
Derive(k) ==
  /\ dpc = "on"
  /\ dNames[k] = <<>>
  /\ dNames' = [dNames EXCEPT ![k] = HashedTokenName(dRecs[k])]
  /\ UNCHANGED <<mintVars, queryVars, dpc, dRecs>>

DeriveInit ==
  /\ program = "v2"
  /\ MintStart /\ QueryIdle
  /\ dpc = "on"
  /\ dRecs \in DeriveRecords \X DeriveRecords
  /\ dNames = <<<<>>, <<>>>>

DeriveNext == \E k \in {1, 2} : Derive(k)

SpecDerive == DeriveInit /\ [][DeriveNext]_vars

----------------------------------------------------------------------------
(* Vocabulary of the properties *)

\* A field of the body is absent
AnyFieldMissing(metadata) == \E f \in Fields : f \notin DOMAIN metadata

\* The request has been answered once, with this status
Answered(r, status) == Len(resp[r]) = 1 /\ resp[r][1].status = status

\* Where a call stands in a request's calls (0: not made)
Pos(r, call) ==
  IF \E i \in 1..Len(calls[r]) : calls[r][i] = call
  THEN CHOOSE i \in 1..Len(calls[r]) : calls[r][i] = call
  ELSE 0

\* Both calls made implies the first was made before the second
InOrder(r, first, second) ==
  (Pos(r, first) > 0 /\ Pos(r, second) > 0) => Pos(r, first) < Pos(r, second)

\* complete() has resolved for the request: its transaction is assembled
Assembled(r) == Pos(r, "signTx") > 0

\* The request passed validation and its handler has ended
Served(r) == pc[r] = "done" /\ calls[r] # <<>>

\* Two requests in flight at once: neither had ended when the other's UTxOs arrived
Overlapping(r1, r2) ==
  /\ r1 # r2 /\ Pos(r1, "getUsedAddresses") > 0 /\ Pos(r2, "getUsedAddresses") > 0
  /\ r1 \notin before[r2] /\ r2 \notin before[r1]

----------------------------------------------------------------------------
(* C1: two records that differ in vehicleNumber, inspectionDate or inspectorId
   are given different token names. *)
C1_DistinctRecordsDistinctNames ==
  (dpc = "on" /\ dNames[1] # <<>> /\ dNames[2] # <<>>
     /\ Triple(dRecs[1]) # Triple(dRecs[2]))
  => dNames[1] # dNames[2]

(* C2: within one process, two mint requests with the same (vehicleNumber,
   inspectionDate, inspectorId) compute the same assetId, whatever their other
   fields, the requests served in between, the UTxOs and the tail of the
   used-address list. *)
C2_SameTripleSameAssetId ==
  program = "v2" =>
    \A r1, r2 \in Reqs :
      (ident[r1] # NoIdent /\ ident[r2] # NoIdent
         /\ Triple(body[r1]) = Triple(body[r2]))
      => ident[r1].assetId = ident[r2].assetId

\* Two requests with one triple and different mileage, the second served after the
\* first was minted (so from another UTxO set), both with an assetId
C2_Witness ==
  /\ program = "v2"
  /\ ident[1] # NoIdent /\ ident[2] # NoIdent
  /\ Triple(body[1]) = Triple(body[2])
  /\ body[1].mileage # body[2].mileage
  /\ Answered(1, 200) /\ 1 \in before[2]

(* C3: a mint request with a field missing is answered 400 with an error body
   and makes no call at all; the step that answers it leaves wallet and ledger
   as they were. *)
C3_MissingFieldNoCall ==
  /\ [](\A r \in Reqs :
          (program \in {"v1", "v2"} /\ pc[r] # "idle" /\ AnyFieldMissing(body[r]))
          => /\ pc[r] = "done"
             /\ resp[r] = <<[status |-> 400, body |-> [error |-> "Missing required fields"]]>>
             /\ calls[r] = <<>>
             /\ tx[r] = NoTx /\ utxos[r] = {})
  /\ [][\A r \in Reqs :
          (pc[r] = "idle" /\ pc'[r] # "idle" /\ AnyFieldMissing(body'[r]))
          => UNCHANGED <<chainUtxos, nextUtxo, ledger, secretKey>>]_vars

\* A request without mileage has been answered while another request is in flight
C3_Witness ==
  \E r \in Reqs :
    /\ program = "v2" /\ pc[r] = "done"
    /\ "mileage" \notin DOMAIN body[r]
    /\ \E o \in Reqs : pc[o] = "submitTx"

(* C4: of two requests whose transactions were assembled, one fetched its UTxOs
   after the other had submitted (or ended). *)
C4_NoSharedSnapshot ==
  \A r1, r2 \in Reqs :
    (r1 # r2 /\ Assembled(r1) /\ Assembled(r2))
    => (r1 \in before[r2] \/ r2 \in before[r1])

\* A fetch of the query was answered with a status that is not 2xx
Refused(q) == qpc[q] = "done" /\ \E i \in 1..Len(qfetched[q]) : ~Ok(qfetched[q][i])

\* The status of the query's last fetch
LastStatus(q) == qfetched[q][Len(qfetched[q])]

(* C5, as stated: when the indexer answers a fetch with a status s that is not
   2xx, the response to the caller has status s. *)
C5_UpstreamStatusReturned ==
  \A q \in Queries :
    Refused(q) => (Len(qresp[q]) = 1 /\ qresp[q][1].status = LastStatus(q))

(* C5, amended: when the indexer answers a fetch with a status s that is not
   2xx, that fetch is the request's last, the one response has status 500 and
   the endpoint's fixed error text, and in the second variant its details are
   "Blockfrost API returned status s"; a request answered 200 made every fetch
   of its endpoint itself. *)
C5_UpstreamStatusInDetails ==
  \A q \in Queries :
    /\ Refused(q) =>
         /\ \A i \in 1..Len(qfetched[q]) : ~Ok(qfetched[q][i]) => i = Len(qfetched[q])
         /\ Len(qresp[q]) = 1
         /\ qresp[q][1].status = 500
         /\ qresp[q][1].body.error = QueryError(qroute[q])
         /\ program = "v2" =>
              qresp[q][1].body.details = <<"Blockfrost API returned status ", LastStatus(q)>>
         /\ program = "v1" => DOMAIN qresp[q][1].body = {"error"}
    /\ (qpc[q] = "done" /\ Len(qresp[q]) = 1 /\ qresp[q][1].status = 200) =>
         /\ Len(qfetched[q]) = (IF qroute[q] = "tx" THEN 1 ELSE 2)
         /\ \A i \in 1..Len(qfetched[q]) : Ok(qfetched[q][i])

\* An asset query whose second fetch was answered 404, after an earlier query
\* of the same process was answered 200
C5_Witness ==
  /\ program = "v2"
  /\ qpc[1] = "done" /\ qresp[1][1].status = 200
  /\ qpc[2] = "done" /\ qroute[2] = "nft" /\ qfetched[2] = <<200, 404>>

(* C6: a mint request that passes validation ends with exactly one response:
   200 with txHash and assetId when submitTx resolved, otherwise 500 carrying
   the message of the call that rejected. *)
C6_OneResponseWithCause ==
  \A r \in Reqs :
    (program \in {"v1", "v2"} /\ Served(r)) =>
      /\ Len(resp[r]) = 1
      /\ IF failedAt[r] = ""
         THEN /\ resp[r][1].status = 200
              /\ DOMAIN resp[r][1].body = {"txHash", "assetId"}
         ELSE /\ resp[r][1].status = 500
              /\ "details" \in DOMAIN resp[r][1].body
              /\ resp[r][1].body.details = ErrorMessage(failedAt[r])

(* C7: a mint request that fails leaves nothing behind: its transaction and
   UTxOs are dropped, the ledger holds only the transactions of the requests
   answered 200, the process's key is what it was, and a later request with the
   same body starts again at getUtxos and derives the same token name and
   assetId. *)
C7_FailureLeavesNothing ==
  /\ [](program = "v2" =>
         /\ \A r \in Reqs :
              (Served(r) /\ failedAt[r] # "") =>
                 /\ tx[r] = NoTx /\ utxos[r] = {} /\ walletAddress[r] = ""
                 /\ Answered(r, 500)
         /\ Cardinality(ledger) = Cardinality({r \in Reqs : Served(r) /\ failedAt[r] = ""})
         /\ \A r1, r2 \in Reqs :
              (Served(r1) /\ failedAt[r1] # "" /\ r1 \in before[r2] /\ body[r2] = body[r1])
              => /\ calls[r2][1] = "getUtxos" /\ calls[r2][2] = "getUsedAddresses"
                 /\ (ident[r1] # NoIdent /\ ident[r2] # NoIdent) =>
                      /\ ident[r2].tokenName = ident[r1].tokenName
                      /\ ident[r2].assetId = ident[r1].assetId)
  /\ [][secretKey' = secretKey /\ program' = program]_vars

\* A request failed at submitTx and the same body, sent again, was minted
C7_Witness ==
  /\ program = "v2"
  /\ failedAt[1] = "submitTx" /\ 1 \in before[2] /\ body[2] = body[1]
  /\ Answered(2, 200)

\* The call that derives the token name
IdentityCall == IF program = "v2" THEN "createHash" ELSE "stringToHex"

(* C8, as stated: the stages run in the order script selection, identity
   derivation, UTxO selection, metadata embedding, signing, submission. *)
C8_StatedOrder ==
  \A r \in Reqs :
    /\ InOrder(r, "withOneSignature", IdentityCall)
    /\ InOrder(r, IdentityCall, "selectUtxosFrom")
    /\ InOrder(r, "selectUtxosFrom", "metadataValue")
    /\ InOrder(r, "metadataValue", "signTx")
    /\ InOrder(r, "signTx", "submitTx")

(* C8, amended: the calls run in the order getUtxos, getUsedAddresses, script
   selection, identity derivation, metadata embedding, UTxO selection,
   complete, signTx, submitTx; each is made at most once; signTx is called only
   after complete resolved, submitTx only after signTx resolved and on the
   transaction this request built and signed; after a call rejects no further
   call is made. *)
C8_CodeOrder ==
  \A r \in Reqs :
    /\ InOrder(r, "getUtxos", "getUsedAddresses")
    /\ InOrder(r, "getUsedAddresses", "withOneSignature")
    /\ InOrder(r, "withOneSignature", IdentityCall)
    /\ InOrder(r, IdentityCall, "metadataValue")
    /\ InOrder(r, "metadataValue", "selectUtxosFrom")
    /\ InOrder(r, "selectUtxosFrom", "complete")
    /\ InOrder(r, "complete", "signTx")
    /\ InOrder(r, "signTx", "submitTx")
    /\ \A i, j \in 1..Len(calls[r]) : calls[r][i] = calls[r][j] => i = j
    /\ Pos(r, "signTx") > 0 => (Pos(r, "complete") > 0 /\ failedAt[r] # "complete")
    /\ Pos(r, "submitTx") > 0 => (Pos(r, "signTx") > 0 /\ failedAt[r] # "signTx")
    /\ pc[r] = "submitTx" =>
         /\ tx[r].signedBy = secretKey
         /\ tx[r].inputs # {} /\ tx[r].inputs \subseteq utxos[r]
         /\ tx[r].mint.name = stringToHex(ident[r].tokenName)
    /\ failedAt[r] # "" => calls[r][Len(calls[r])] = failedAt[r]

\* A request of the second variant has called submitTx, and another has stopped
\* at a rejected signTx
C8_Witness ==
  /\ program = "v2"
  /\ \E r \in Reqs : Pos(r, "submitTx") > 0 /\ pc[r] = "done" /\ failedAt[r] = ""
  /\ \E r \in Reqs : failedAt[r] = "signTx"

\* The requests answered 200 with this assetId
MintedBy(asset) ==
  {r \in Reqs : Answered(r, 200) /\ resp[r][1].body.assetId = asset}

(* C9: no mint is refused for having been minted before: a signed transaction
   whose inputs are unspent is one the ledger takes, and two requests with the
   same triple that are both answered 200 carry the same assetId, of which the
   ledger then holds one unit per such request (2 for two requests). *)
C9_DuplicatesAreMinted ==
  program = "v2" =>
    /\ \A r \in Reqs :
         (pc[r] = "submitTx" /\ tx[r].inputs \subseteq chainUtxos) => CanSubmit(tx[r])
    /\ \A r1, r2 \in Reqs :
         (r1 # r2 /\ Answered(r1, 200) /\ Answered(r2, 200)
            /\ Triple(body[r1]) = Triple(body[r2]))
         => /\ resp[r1][1].body.assetId = resp[r2][1].body.assetId
            /\ Minted(resp[r1][1].body.assetId)
                 = Cardinality(MintedBy(resp[r1][1].body.assetId))
            /\ Minted(resp[r1][1].body.assetId) >= 2

\* Two requests with one triple, one after the other, both answered 200: 2 units
C9_Witness ==
  /\ program = "v2"
  /\ Answered(1, 200) /\ Answered(2, 200) /\ 1 \in before[2]
  /\ Triple(body[1]) = Triple(body[2])
  /\ Minted(resp[1][1].body.assetId) = 2

\* The transaction is the mint of one unit of this asset, with one 721 entry at
\* policyId -> tokenName that holds the body's fields and the display name
MintsAs(t, asset, metadata) ==
  /\ t.mint.quantity = 1
  /\ t.mint.policy \o t.mint.name = asset
  /\ DOMAIN t.metadata = {721}
  /\ Cardinality(DOMAIN t.metadata[721]) = 1
  /\ \A p \in DOMAIN t.metadata[721] :
       /\ p = t.mint.policy
       /\ Cardinality(DOMAIN t.metadata[721][p]) = 1
       /\ \A n \in DOMAIN t.metadata[721][p] :
            /\ p \o stringToHex(n) = asset
            /\ DOMAIN t.metadata[721][p][n] = DOMAIN metadata \cup {"name"}
            /\ \A f \in DOMAIN metadata : t.metadata[721][p][n][f] = metadata[f]
            /\ t.metadata[721][p][n].name =
                 <<"C", "a", "r", "I", "n", "s", "p", "e", "c", "t", "i", "o", "n", "-">>
                   \o metadata.vehicleNumber

(* C10: in every 200 response of the second variant, txHash is the id of one
   transaction of the ledger, which mints one unit of the returned assetId and
   whose 721 metadata has the single entry policyId -> tokenName with the
   request's own fields and name = "CarInspection-" + vehicleNumber; also when
   requests are in flight together. *)
C10_ResponseNamesTheMint ==
  program = "v2" =>
    \A r \in Reqs :
      Answered(r, 200) =>
        /\ Cardinality({t \in ledger : TxHash(t) = resp[r][1].body.txHash}) = 1
        /\ \A t \in ledger :
             TxHash(t) = resp[r][1].body.txHash
             => MintsAs(t, resp[r][1].body.assetId, body[r])

\* Two requests in flight together, with different records, both answered 200
C10_Witness ==
  /\ program = "v2"
  /\ Overlapping(1, 2) /\ Answered(1, 200) /\ Answered(2, 200)
  /\ Triple(body[1]) # Triple(body[2])

====
